---- MODULE Spec2Model ----
(***************************************************************************)
(* The e-mail verification-code lifecycle of server.js: the in-memory      *)
(* verifyStore, POST /auth/send-code, POST /auth/admin-send-code and       *)
(* POST /auth/verify-code, run on the single-threaded event loop.  A       *)
(* handler runs without interruption up to its first await; the only await *)
(* is mailer.sendMail, so each issuing request is two steps (the           *)
(* synchronous part, then the resolution or rejection of sendMail) and     *)
(* verify-code is one step.                                                *)
(*                                                                         *)
(* JavaScript strings are sequences of one-character strings, so that      *)
(* trim(), toLowerCase(), String(n) and the e-mail regular expression are   *)
(* computed and not assumed.                                               *)
(***************************************************************************)
EXTENDS Integers, Sequences, FiniteSets, TLC

VARIABLES
    now,           \* Date.now(), in milliseconds
    verifyStore,   \* the Map identifier -> {code, role, expiresAt, lastSentAt, attempts}
    inflight,      \* the requests waiting at `await mailer.sendMail`, with the recipient
    envAdminEmails,\* process.env.ADMIN_EMAILS, split at the commas
    fate,          \* history: per entry ever stored (by identity), "live" or how it left
    minted,        \* history: per entry ever stored, the tokens minted from its code
    submitted      \* history: per key, the verify-code requests that reached the
                   \* attempt counter of the entry now stored

vars == <<now, verifyStore, inflight, envAdminEmails, fate, minted, submitted>>

-----------------------------------------------------------------------------
(* Program constants *)

CODE_TTL == 600
RESEND_COOLDOWN == 60
MAX_ATTEMPTS == 6
CODE_BASE == 100000
CODE_SPAN == 900000
JWT_EXPIRES_IN == 86400

JWT_SECRET == "fallback-secret-change-this"

(* Bounds of the model *)

\* verifyStore.set calls in one behaviour
MaxIssued == 2

-----------------------------------------------------------------------------
(* Strings *)

Whitespace == {" ", "\t"}

LowerChar(c) ==
    CASE c = "A" -> "a"
      [] c = "B" -> "b"
      [] c = "U" -> "u"
      [] c = "X" -> "x"
      [] OTHER -> c

toLowerCase(s) == [k \in 1..Len(s) |-> LowerChar(s[k])]

RECURSIVE trimStart(_)
trimStart(s) ==
    IF s # <<>> /\ Head(s) \in Whitespace THEN trimStart(Tail(s)) ELSE s

RECURSIVE trimEnd(_)
trimEnd(s) ==
    IF s # <<>> /\ s[Len(s)] \in Whitespace
    THEN trimEnd(SubSeq(s, 1, Len(s) - 1))
    ELSE s

trim(s) == trimEnd(trimStart(s))

Digit(d) ==
    CASE d = 0 -> "0" [] d = 1 -> "1" [] d = 2 -> "2" [] d = 3 -> "3"
      [] d = 4 -> "4" [] d = 5 -> "5" [] d = 6 -> "6" [] d = 7 -> "7"
      [] d = 8 -> "8" [] d = 9 -> "9"

\* String(n) of a non-negative integer
RECURSIVE NumberToString(_)
NumberToString(n) ==
    IF n < 10 THEN <<Digit(n)>>
    ELSE Append(NumberToString(n \div 10), Digit(n % 10))

\* /^[^\s@]+@[^\s@]+\.[^\s@]+$/.test(s): an "@" at i that has something before
\* it, a "." at j that has something between the "@" and it and something after
\* it, and neither white space nor another "@" anywhere
EmailRegexTest(s) ==
    \E i \in 2..Len(s) :
        /\ s[i] = "@"
        /\ \A k \in 1..Len(s) : k # i => s[k] \notin (Whitespace \cup {"@"})
        /\ \E j \in (i + 2)..(Len(s) - 1) : s[j] = "."

-----------------------------------------------------------------------------
(* Request bodies: JSON objects whose fields may be missing *)

Has(body, f) == f \in DOMAIN body

\* String(req.body?.f || dflt)
FieldOr(body, f, dflt) ==
    IF Has(body, f) /\ body[f] # <<>> THEN body[f] ELSE dflt

EmptyBody == [f \in {} |-> f]

EmailA == <<"a", "@", "b", ".", "d">>
RawEmailA == <<" ", "A", "@", "B", ".", "d", "\t">>
NotAnEmail == <<"a", "@", "b">>

EmailX == <<"x", "@", "b", ".", "d">>
RawEmailX == <<"X", "@", "b", ".", "d">>

RawUser == <<"U", "s", "e", "r", " ">>
Blank == <<" ">>

\* the request bodies clients post to send-code
SendBodies ==
    { [identifier |-> EmailA],
      [identifier |-> RawEmailA, role |-> RawUser],
      [identifier |-> EmailA, role |-> Blank],
      [identifier |-> NotAnEmail],
      EmptyBody }

\* the request bodies clients post to admin-send-code: those of send-code, and
\* one of a client whose address is not on the allow-list
AdminBodies == SendBodies \cup { [identifier |-> RawEmailX] }

-----------------------------------------------------------------------------
(* The Map *)

EmptyMap == [k \in {} |-> k]

MapHas(m, k) == k \in DOMAIN m

MapSet(m, k, v) == [x \in DOMAIN m \cup {k} |-> IF x = k THEN v ELSE m[x]]

\* the delete that empties the Map
MapClear(m, k) == EmptyMap

MapDelete(m, k) == [x \in DOMAIN m \ {k} |-> m[x]]

-----------------------------------------------------------------------------
(* The clock: Date.now() never goes back; the instants are those at which   *)
(* the cooldown and the expiry of a code change the outcome of a comparison. *)

Instants ==
    { 0,
      RESEND_COOLDOWN * 1000 - 999, RESEND_COOLDOWN * 1000,
      CODE_TTL * 1000, CODE_TTL * 1000 + 1 }

-----------------------------------------------------------------------------
(* genCode *)

\* Math.random() returns k / RandomResolution for a k of RandomDraws: the
\* least value it can return, and the greatest at that resolution
RandomResolution == CODE_SPAN

RandomDraws == {0, RandomResolution - 1}

\* String(Math.floor(Math.random() * 1000000)): a code with no leading digit
GeneratedCodeUnpadded ==
    [k \in RandomDraws |->
        NumberToString((k * ((CODE_BASE + CODE_SPAN) \div CODE_BASE))
                          \div (RandomResolution \div CODE_BASE))]

\* String(Math.floor(100000 + Math.random() * 900000)), for each draw; the
\* product is k * (900000 / RandomResolution), a whole number
GeneratedCode ==
    [k \in RandomDraws |->
        NumberToString(CODE_BASE + k * (CODE_SPAN \div RandomResolution))]

genCode(k) == GeneratedCode[k]

-----------------------------------------------------------------------------
(* Pieces of the handlers *)

RoleUser == <<"u", "s", "e", "r">>
RoleAdmin == <<"a", "d", "m", "i", "n">>

\* the identifier trimmed but left in the case it came in
NormalizeIdentifierTrimOnly(body) == trim(FieldOr(body, "identifier", <<>>))

\* String(req.body?.identifier || '').trim().toLowerCase()
NormalizeIdentifier(body) == toLowerCase(trim(FieldOr(body, "identifier", <<>>)))

\* String(req.body?.role || dflt).trim().toLowerCase()
NormalizeRole(body, dflt) == toLowerCase(trim(FieldOr(body, "role", dflt)))

\* String(req.body?.code || '').trim()
SubmittedCode(body) == trim(FieldOr(body, "code", <<>>))

\* the check that only asks for a non-empty identifier
ValidEmailNonEmpty(identifier) == identifier # <<>>

\* !(!identifier || !regex.test(identifier))
ValidEmail(identifier) == identifier # <<>> /\ EmailRegexTest(identifier)

\* (process.env.ADMIN_EMAILS || '').split(',').map(e => e.trim().toLowerCase()).filter(Boolean)
ADMIN_EMAILS ==
    SelectSeq([k \in 1..Len(envAdminEmails) |-> toLowerCase(trim(envAdminEmails[k]))],
              LAMBDA e : e # <<>>)

\* the allow-list never consulted
AccessNeverDenied(identifier) == FALSE

\* the allow-list consulted even when it is empty
AccessDeniedUnlessListed(identifier) ==
    \A k \in 1..Len(ADMIN_EMAILS) : ADMIN_EMAILS[k] # identifier

\* ADMIN_EMAILS.length > 0 && !ADMIN_EMAILS.includes(identifier)
AccessDenied(identifier) ==
    /\ Len(ADMIN_EMAILS) > 0
    /\ \A k \in 1..Len(ADMIN_EMAILS) : ADMIN_EMAILS[k] # identifier

\* the window of half the cooldown
ThrottledHalfWindow(store, identifier, t) ==
    /\ MapHas(store, identifier)
    /\ t - store[identifier].lastSentAt < (RESEND_COOLDOWN * 1000) \div 2

\* the comparison with <= for <: still throttled when the cooldown has just elapsed
ThrottledAtBoundary(store, identifier, t) ==
    /\ MapHas(store, identifier)
    /\ t - store[identifier].lastSentAt <= RESEND_COOLDOWN * 1000

\* prev && now - prev.lastSentAt < RESEND_COOLDOWN * 1000
Throttled(store, identifier, t) ==
    /\ MapHas(store, identifier)
    /\ t - store[identifier].lastSentAt < RESEND_COOLDOWN * 1000

\* Math.ceil(a / b), b > 0
MathCeilDiv(a, b) == -((-a) \div b)

\* the wait rounded down, as Math.floor would
WaitSecondsFloor(prev, t) ==
    (RESEND_COOLDOWN * 1000 - (t - prev.lastSentAt)) \div 1000

\* Math.ceil((RESEND_COOLDOWN * 1000 - (now - prev.lastSentAt)) / 1000)
WaitSeconds(prev, t) ==
    MathCeilDiv(RESEND_COOLDOWN * 1000 - (t - prev.lastSentAt), 1000)

\* the object literal handed to verifyStore.set; serial is the object's identity
NewEntry(code, role, t, serial) ==
    [ code |-> code,
      role |-> role,
      expiresAt |-> t + CODE_TTL * 1000,
      lastSentAt |-> t,
      attempts |-> 0,
      serial |-> serial ]

\* the comparison with >= for >
ExpiredAtDeadline(entry, t) == t >= entry.expiresAt

\* the comparison made in whole seconds
ExpiredInSeconds(entry, t) == t \div 1000 > entry.expiresAt \div 1000

\* now > entry.expiresAt
Expired(entry, t) == t > entry.expiresAt

\* the counter advanced by two
IncrementAttemptsTwice(entry) == [entry EXCEPT !.attempts = @ + 2]

\* entry.attempts = (entry.attempts || 0) + 1
IncrementAttempts(entry) == [entry EXCEPT !.attempts = @ + 1]

\* the comparison with >= for >
TooManyAttemptsOffByOne(entry) == entry.attempts >= MAX_ATTEMPTS

\* the ceiling set one attempt higher
TooManyAttemptsLenient(entry) == entry.attempts > MAX_ATTEMPTS + 1

\* entry.attempts > 6
TooManyAttempts(entry) == entry.attempts > MAX_ATTEMPTS

\* the comparison of the lengths only
CodeMismatchByLength(entry, code) == Len(entry.code) # Len(code)

\* entry.code !== code
CodeMismatch(entry, code) == entry.code # code

\* the role of the token fixed to 'user'
TokenRoleAlwaysUser(entry) == RoleUser

\* entry.role || 'user'
TokenRole(entry) == IF entry.role # <<>> THEN entry.role ELSE RoleUser

\* jwt.sign({email, role, iat: Math.floor(Date.now() / 1000)}, JWT_SECRET, {expiresIn: '24h'})
\* a token is its payload and the key that signed it
JwtSign(email, role, t, secret) ==
    [ payload |-> [ email |-> email,
                    role |-> role,
                    iat |-> t \div 1000,
                    exp |-> (t \div 1000) + JWT_EXPIRES_IN ],
      sig |-> secret ]

\* the expiry test with > for >=: a token still accepted in its last second
JwtVerifyLate(token, secret, t) ==
    IF ~Has(token, "payload") \/ ~Has(token, "sig") THEN <<>>
    ELSE IF token.sig # secret THEN <<>>
    ELSE IF t \div 1000 > token.payload.exp THEN <<>>
    ELSE <<token.payload>>

\* jwt.verify(token, secret) at time t: <<payload>>, or <<>> when it throws
\* (not a token, signed with another key, or t at or past exp)
JwtVerify(token, secret, t) ==
    IF ~Has(token, "payload") \/ ~Has(token, "sig") THEN <<>>
    ELSE IF token.sig # secret THEN <<>>
    ELSE IF t \div 1000 >= token.payload.exp THEN <<>>
    ELSE <<token.payload>>

(* Response bodies *)

Response(status, body) == [status |-> status, body |-> body]

BodyInvalidEmail == [error |-> "Valid email required"]
BodyAccessDenied ==
    [error |-> "Access denied. This email is not authorized for admin access."]
\* the template literal, with the interpolated number beside it
BodyThrottled(wait) ==
    [error |-> "Please wait ${wait}s before requesting again", wait |-> wait]
BodyCodeSent == [ok |-> TRUE, message |-> "Code sent"]
BodySendFailed == [error |-> "Failed to send code"]
BodyNoCode == [error |-> "No code requested for this email"]
BodyExpired == [error |-> "Code expired. Request a new one."]
BodyTooMany == [error |-> "Too many attempts. Request a new code."]
BodyInvalidCode == [error |-> "Invalid code"]
BodyNoToken == [valid |-> FALSE, error |-> "No token provided"]
BodyInvalidToken == [valid |-> FALSE, error |-> "Invalid or expired token"]
BodyValidToken(decoded) ==
    [valid |-> TRUE, email |-> decoded.email, role |-> decoded.role]
\* the success body with the entry's code echoed
BodyVerifiedEchoingCode(identifier, entry, token) ==
    [ ok |-> TRUE,
      message |-> "Email verified",
      token |-> token,
      role |-> IF entry.role # <<>> THEN entry.role ELSE RoleUser,
      email |-> identifier,
      code |-> entry.code ]

BodyVerified(identifier, entry, token) ==
    [ ok |-> TRUE,
      message |-> "Email verified",
      token |-> token,
      role |-> TokenRole(entry),
      email |-> identifier ]

\* the message handed to mailer.sendMail: its recipient, and the code that its
\* text and html interpolate (the rest of the message is fixed text)
MailMessage(identifier, code) == [to |-> identifier, code |-> code]

\* the entry written (again) once the mail is sent, from what the handler holds
StoreWrittenAfterMail(store, s) ==
    MapSet(store, inflight[s], NewEntry(genCode(0), RoleUser, now, s))

\* the end of a delivery also drops every challenge whose expiresAt has passed
StoreSweptAfterMail(store, s) ==
    [i \in { x \in DOMAIN store : now <= store[x].expiresAt } |-> store[i]]

\* what the code after `await mailer.sendMail` does to the store: nothing
StoreAfterMailResolved(store, s) == store

\* the entry of the failed request dropped by whatever key holds it
StoreClearedAfterFailure(store, s) ==
    [i \in { x \in DOMAIN store : store[x].serial # s } |-> store[i]]

\* what the catch block does to the store: nothing
StoreAfterMailRejected(store, s) == store

-----------------------------------------------------------------------------
(* The handlers, as functions of the store, the clock and the request.  A   *)
(* result holds the store the handler leaves, the messages it hands to      *)
(* mailer.sendMail and the responses it writes (none while it awaits).      *)

Result(store, mail, res) == [store |-> store, mail |-> mail, res |-> res]

Responded(store, status, body) == Result(store, <<>>, <<Response(status, body)>>)

\* the issuance that updates the entry already stored and keeps its attempts
IssueMerging(store, t, identifier, role, serial, k) ==
    LET code == genCode(k)
        fresh == NewEntry(code, role, t, serial)
        merged == IF MapHas(store, identifier)
                  THEN [fresh EXCEPT !.attempts = store[identifier].attempts]
                  ELSE fresh
    IN  Result(MapSet(store, identifier, merged),
               <<MailMessage(identifier, code)>>,
               <<>>)

\* genCode(), verifyStore.set(...), mailer.sendMail(...): up to the await
Issue(store, t, identifier, role, serial, k) ==
    LET code == genCode(k)
    IN  Result(MapSet(store, identifier, NewEntry(code, role, t, serial)),
               <<MailMessage(identifier, code)>>,
               <<>>)

\* send-code with the allow-list check of admin-send-code
SendCodeHandlerAllowListed(store, t, body, serial, k) ==
    LET identifier == NormalizeIdentifier(body)
        role == NormalizeRole(body, RoleUser)
    IN  IF ~ValidEmail(identifier)
           THEN Responded(store, 400, BodyInvalidEmail)
        ELSE IF AccessDenied(identifier)
           THEN Responded(store, 403, BodyAccessDenied)
        ELSE IF Throttled(store, identifier, t)
           THEN Responded(store, 429, BodyThrottled(WaitSeconds(store[identifier], t)))
        ELSE Issue(store, t, identifier, role, serial, k)

\* POST /auth/send-code, up to the await
SendCodeHandler(store, t, body, serial, k) ==
    LET identifier == NormalizeIdentifier(body)
        role == NormalizeRole(body, RoleUser)
    IN  IF ~ValidEmail(identifier)
           THEN Responded(store, 400, BodyInvalidEmail)
        ELSE IF Throttled(store, identifier, t)
           THEN Responded(store, 429, BodyThrottled(WaitSeconds(store[identifier], t)))
        ELSE Issue(store, t, identifier, role, serial, k)

\* POST /auth/admin-send-code, up to the await
AdminSendCodeHandler(store, t, body, serial, k) ==
    LET identifier == NormalizeIdentifier(body)
        role == NormalizeRole(body, RoleAdmin)
    IN  IF ~ValidEmail(identifier)
           THEN Responded(store, 400, BodyInvalidEmail)
        ELSE IF AccessDenied(identifier)
           THEN Responded(store, 403, BodyAccessDenied)
        ELSE IF Throttled(store, identifier, t)
           THEN Responded(store, 429, BodyThrottled(WaitSeconds(store[identifier], t)))
        ELSE Issue(store, t, identifier, role, serial, k)

\* the rest of the try block, once mailer.sendMail has resolved
MailResolvedHandler(store, s) ==
    Responded(StoreAfterMailResolved(store, s), 200, BodyCodeSent)

\* a catch block that logs the error and sends nothing
MailRejectedSilent(store, s) ==
    Result(StoreAfterMailRejected(store, s), <<>>, <<>>)

\* the catch block, once mailer.sendMail has rejected
MailRejectedHandler(store, s) ==
    Responded(StoreAfterMailRejected(store, s), 500, BodySendFailed)

\* verify-code that compares the codes before it tests the attempt ceiling
VerifyCodeHandlerCompareFirst(store, t, body) ==
    LET identifier == NormalizeIdentifier(body)
        code == SubmittedCode(body)
    IN  IF ~MapHas(store, identifier)
           THEN Responded(store, 400, BodyNoCode)
        ELSE
           LET entry == store[identifier]
               bumped == IncrementAttempts(entry)
           IN  IF Expired(entry, t)
                  THEN Responded(MapDelete(store, identifier), 400, BodyExpired)
               ELSE IF ~CodeMismatch(bumped, code)
                  THEN Responded(MapDelete(store, identifier), 200,
                                 BodyVerified(identifier, bumped,
                                     JwtSign(identifier, TokenRole(bumped), t, JWT_SECRET)))
               ELSE IF TooManyAttempts(bumped)
                  THEN Responded(MapDelete(store, identifier), 429, BodyTooMany)
               ELSE Responded(MapSet(store, identifier, bumped), 400, BodyInvalidCode)

\* POST /auth/verify-code
VerifyCodeHandler(store, t, body) ==
    LET identifier == NormalizeIdentifier(body)
        code == SubmittedCode(body)
    IN  IF ~MapHas(store, identifier)
           THEN Responded(store, 400, BodyNoCode)
        ELSE
           LET entry == store[identifier]
               bumped == IncrementAttempts(entry)
           IN  IF Expired(entry, t)
                  THEN Responded(MapDelete(store, identifier), 400, BodyExpired)
               ELSE IF TooManyAttempts(bumped)
                  THEN Responded(MapDelete(store, identifier), 429, BodyTooMany)
               ELSE IF CodeMismatch(bumped, code)
                  THEN Responded(MapSet(store, identifier, bumped), 400, BodyInvalidCode)
               ELSE Responded(MapDelete(store, identifier), 200,
                              BodyVerified(identifier, bumped,
                                  JwtSign(identifier, TokenRole(bumped), t, JWT_SECRET)))

\* validation that also rejects a token while its holder has a challenge pending
VerifyTokenConsultingStore(store, t, body) ==
    IF ~Has(body, "token")
       THEN Responded(store, 401, BodyNoToken)
    ELSE
       LET decoded == JwtVerify(body.token, JWT_SECRET, t)
       IN  IF decoded # <<>> /\ ~MapHas(store, decoded[1].email)
              THEN Responded(store, 200, BodyValidToken(decoded[1]))
           ELSE Responded(store, 401, BodyInvalidToken)

\* validation whose error names what jwt.verify threw
VerifyTokenNamingCause(store, t, body) ==
    IF ~Has(body, "token")
       THEN Responded(store, 401, BodyNoToken)
    ELSE
       LET token == body.token
           decoded == JwtVerify(token, JWT_SECRET, t)
       IN  IF decoded # <<>>
              THEN Responded(store, 200, BodyValidToken(decoded[1]))
           ELSE IF ~Has(token, "payload") \/ ~Has(token, "sig")
              THEN Responded(store, 401, [valid |-> FALSE, error |-> "jwt malformed"])
           ELSE IF token.sig # JWT_SECRET
              THEN Responded(store, 401, [valid |-> FALSE, error |-> "invalid signature"])
           ELSE Responded(store, 401, [valid |-> FALSE, error |-> "jwt expired"])

\* POST /auth/verify-token
VerifyTokenHandler(store, t, body) ==
    IF ~Has(body, "token")
       THEN Responded(store, 401, BodyNoToken)
    ELSE
       LET decoded == JwtVerify(body.token, JWT_SECRET, t)
       IN  IF decoded # <<>>
              THEN Responded(store, 200, BodyValidToken(decoded[1]))
           ELSE Responded(store, 401, BodyInvalidToken)

-----------------------------------------------------------------------------
(* History bookkeeping (not program state) *)

Serials(store) == { store[i].serial : i \in DOMAIN store }

\* entries that are in the store before a step and not after it leave for `cause`
FateAfter(store, store2, cause) ==
    [s \in 1..Len(fate) |->
        IF s \in Serials(store) \ Serials(store2) THEN cause ELSE fate[s]]

Carry(store2) ==
    [i \in DOMAIN store2 |-> IF i \in DOMAIN submitted THEN submitted[i] ELSE 0]

\* how verify-code removed an entry, read off its response
Cause(res) ==
    IF res.status = 200 THEN "match"
    ELSE IF res.body = BodyExpired THEN "expired"
    ELSE IF res.body = BodyTooMany THEN "attempts"
    ELSE "other"

-----------------------------------------------------------------------------
(* Steps of the event loop *)

\* the synchronous part of an issuing request
Issuing(out) ==
    /\ out.mail # <<>> => Len(fate) < MaxIssued
    /\ verifyStore' = out.store
    /\ inflight' = IF out.mail # <<>>
                   THEN MapSet(inflight, Len(fate) + 1, out.mail[1].to)
                   ELSE inflight
    /\ fate' = IF out.mail # <<>>
               THEN Append(FateAfter(verifyStore, out.store, "overwritten"), "live")
               ELSE fate
    /\ minted' = IF out.mail # <<>> THEN Append(minted, 0) ELSE minted
    /\ submitted' = IF out.mail # <<>>
                    THEN [Carry(out.store) EXCEPT ![out.mail[1].to] = 0]
                    ELSE submitted
    /\ UNCHANGED <<now, envAdminEmails>>

SendCode(body) ==
    \E k \in RandomDraws :
        Issuing(SendCodeHandler(verifyStore, now, body, Len(fate) + 1, k))

AdminSendCode(body) ==
    \E k \in RandomDraws :
        Issuing(AdminSendCodeHandler(verifyStore, now, body, Len(fate) + 1, k))

\* mailer.sendMail settles and the handler runs to its end
Settling(s, out) ==
    /\ MapHas(inflight, s)
    /\ inflight' = MapDelete(inflight, s)
    /\ verifyStore' = out.store
    /\ fate' = FateAfter(verifyStore, out.store, "other")
    /\ submitted' = Carry(out.store)
    /\ UNCHANGED <<now, envAdminEmails, minted>>

MailResolved(s) == Settling(s, MailResolvedHandler(verifyStore, s))

MailRejected(s) == Settling(s, MailRejectedHandler(verifyStore, s))

\* the request bodies clients post to verify-code
VerifyBodies ==
    { [identifier |-> EmailA, code |-> genCode(k)] : k \in RandomDraws }
        \cup { [identifier |-> RawEmailA, code |-> <<" ">> \o genCode(0) \o <<"\t">>],
               [identifier |-> EmailA, code |-> <<"0", "0", "0", "0", "0", "0">>],
               [identifier |-> EmailA],
               EmptyBody }

VerifyCode(body) ==
    LET out == VerifyCodeHandler(verifyStore, now, body)
        identifier == NormalizeIdentifier(body)
        counted == out.res[1].body \notin {BodyNoCode, BodyExpired}
    IN  /\ verifyStore' = out.store
        /\ fate' = FateAfter(verifyStore, out.store, Cause(out.res[1]))
        /\ minted' = IF Has(out.res[1].body, "token")
                      THEN [minted EXCEPT ![verifyStore[identifier].serial] = @ + 1]
                      ELSE minted
        /\ submitted' = [i \in DOMAIN out.store |->
                            IF i = identifier /\ counted THEN submitted[i] + 1
                            ELSE submitted[i]]
        /\ UNCHANGED <<now, inflight, envAdminEmails>>

\* the tokens clients present: one minted 24 h before the instant CODE_TTL,
\* one minted now, one signed with another key, and something that is no token
PresentedTokens ==
    { JwtSign(EmailA, RoleUser, (CODE_TTL - JWT_EXPIRES_IN) * 1000, JWT_SECRET),
      JwtSign(EmailA, RoleAdmin, now, JWT_SECRET),
      JwtSign(EmailA, RoleAdmin, now, "guessed-secret"),
      [garbage |-> TRUE] }

\* the request bodies clients post to verify-token
TokenBodies == { [token |-> k] : k \in PresentedTokens } \cup { EmptyBody }

VerifyToken(body) ==
    LET out == VerifyTokenHandler(verifyStore, now, body)
    IN  /\ verifyStore' = out.store
        /\ UNCHANGED <<now, inflight, envAdminEmails, fate, minted, submitted>>

\* Date.now() advances
Tick ==
    /\ \E t \in Instants : t > now /\ now' = t
    /\ UNCHANGED <<verifyStore, inflight, envAdminEmails, fate, minted, submitted>>

-----------------------------------------------------------------------------

EnvAdminEmails == { << <<" ", "A", "@", "B", ".", "d">>, <<>> >> }

Init ==
    /\ now = 0
    /\ verifyStore = EmptyMap
    /\ inflight = EmptyMap
    /\ envAdminEmails \in EnvAdminEmails
    /\ fate = <<>>
    /\ minted = <<>>
    /\ submitted = EmptyMap

Next ==
    \/ \E body \in SendBodies : SendCode(body)
    \/ \E body \in AdminBodies : AdminSendCode(body)
    \/ \E s \in DOMAIN inflight : MailResolved(s)
    \/ \E s \in DOMAIN inflight : MailRejected(s)
    \/ \E body \in VerifyBodies : VerifyCode(body)
    \/ \E body \in TokenBodies : VerifyToken(body)
    \/ Tick

Spec == Init /\ [][Next]_vars

-----------------------------------------------------------------------------
(* Vocabulary of the properties *)

\* the instants at or after the present one
Later == { t \in Instants : t >= now }

\* verify-code bodies naming the identifier i
VerifyBodiesFor(i) == { b \in VerifyBodies : NormalizeIdentifier(b) = i }

\* the response a handler result carries
Res(out) == out.res[1]

NoPending == Response(400, BodyNoCode)

\* every later verify-code for i, against the store `store`, finds no challenge
NoPendingFrom(store, i) ==
    \A t2 \in Later : \A b2 \in VerifyBodiesFor(i) :
        LET out2 == VerifyCodeHandler(store, t2, b2)
        IN  Res(out2) = NoPending /\ out2.store = store

-----------------------------------------------------------------------------
\* C1: a verify-code whose trimmed code equals the stored code, at now <=
\* expiresAt and with the incremented attempts at most 6, succeeds with a token
\* and removes the challenge; every following verify-code for the identifier
\* then gets the no-pending-challenge error; and no entry ever yields more than
\* one token.
C1_OneShotConsumption ==
    /\ \A b \in VerifyBodies :
          LET i == NormalizeIdentifier(b)
              out == VerifyCodeHandler(verifyStore, now, b)
          IN  ( /\ MapHas(verifyStore, i)
                /\ SubmittedCode(b) = verifyStore[i].code
                /\ now <= verifyStore[i].expiresAt
                /\ verifyStore[i].attempts + 1 <= MAX_ATTEMPTS )
              => /\ Res(out).status = 200
                 /\ Has(Res(out).body, "token")
                 /\ ~MapHas(out.store, i)
                 /\ NoPendingFrom(out.store, i)
    /\ \A s \in 1..Len(minted) : minted[s] <= 1
    /\ \A s \in 1..Len(minted) : minted[s] = 1 => s \notin Serials(verifyStore)

\* a code was exchanged for a token at the last instant of its validity and
\* the identifier has no challenge any more
C1_Witness ==
    \E s \in 1..Len(minted) :
        /\ minted[s] = 1
        /\ fate[s] = "match"
        /\ ~MapHas(verifyStore, EmailA)
        /\ now = CODE_TTL * 1000

-----------------------------------------------------------------------------
\* C2: when mailer.sendMail fails, the request stores no challenge: after the
\* catch block the store holds no entry written by the failed request.
C2_FailedDeliveryStoresNothing ==
    \A s \in DOMAIN inflight :
        s \notin Serials(MailRejectedHandler(verifyStore, s).store)

-----------------------------------------------------------------------------
\* C3: while a delivery is in flight, the store does not contain the challenge
\* whose code is being delivered.
C3_NoChallengeDuringDelivery ==
    \A s \in DOMAIN inflight : s \notin Serials(verifyStore)

-----------------------------------------------------------------------------
\* C4: before expiry, each of the first 6 submissions against a challenge that
\* carries a wrong code gets the invalid-code error and the challenge stays;
\* the 7th submission, whatever its code, gets the too-many-attempts error and
\* removes the challenge, and the submission after it finds no challenge.
C4_AttemptCeiling ==
    \A b \in VerifyBodies :
        LET i == NormalizeIdentifier(b)
            out == VerifyCodeHandler(verifyStore, now, b)
        IN  (MapHas(verifyStore, i) /\ now <= verifyStore[i].expiresAt)
            => /\ submitted[i] <= MAX_ATTEMPTS
               /\ (submitted[i] < MAX_ATTEMPTS /\ SubmittedCode(b) # verifyStore[i].code)
                    => /\ Res(out) = Response(400, BodyInvalidCode)
                       /\ MapHas(out.store, i)
                       /\ out.store[i].serial = verifyStore[i].serial
               /\ submitted[i] = MAX_ATTEMPTS
                    => /\ Res(out) = Response(429, BodyTooMany)
                       /\ ~MapHas(out.store, i)
                       /\ NoPendingFrom(out.store, i)

\* a challenge was removed by its 7th submission
C4_Witness ==
    \E s \in 1..Len(fate) : fate[s] = "attempts" /\ ~MapHas(verifyStore, EmailA)

-----------------------------------------------------------------------------
\* the issuing handlers, by name
IssuingHandler(op, store, t, body, serial, k) ==
    IF op = "admin-send-code"
    THEN AdminSendCodeHandler(store, t, body, serial, k)
    ELSE SendCodeHandler(store, t, body, serial, k)

IssuingOps == {"send-code", "admin-send-code"}

BodiesOf(op) == IF op = "admin-send-code" THEN AdminBodies ELSE SendBodies

\* a response is the throttling error with a wait w, 0 < w <= RESEND_COOLDOWN,
\* w the ceiling of remaining / 1000
ThrottledWith(res, remaining) ==
    /\ res.status = 429
    /\ Has(res.body, "wait")
    /\ res.body = BodyThrottled(res.body.wait)
    /\ 0 < res.body.wait
    /\ res.body.wait <= RESEND_COOLDOWN
    /\ (res.body.wait - 1) * 1000 < remaining
    /\ remaining <= res.body.wait * 1000

\* C5: a send-code or admin-send-code for a valid (and, for the admin
\* endpoint, allowed) identifier whose challenge was issued less than the
\* cooldown ago is answered with the throttling error, the reported wait w being
\* the ceiling of the remaining milliseconds / 1000 and 0 < w <= cooldown; and a
\* request that issues a code makes the same request throttled at every instant
\* of the following cooldown window.
C5_CooldownThrottle ==
    \A op \in IssuingOps : \A b \in BodiesOf(op) : \A k \in RandomDraws :
        LET i == NormalizeIdentifier(b)
            serial == Len(fate) + 1
            out == IssuingHandler(op, verifyStore, now, b, serial, k)
        IN  /\ ( /\ ValidEmail(i)
                 /\ op = "admin-send-code" => ~AccessDenied(i)
                 /\ MapHas(verifyStore, i)
                 /\ now - verifyStore[i].lastSentAt < RESEND_COOLDOWN * 1000 )
               => /\ ThrottledWith(Res(out),
                        RESEND_COOLDOWN * 1000 - (now - verifyStore[i].lastSentAt))
                  /\ out.mail = <<>>
            /\ out.mail # <<>>
               => \A t2 \in Later :
                     t2 - now < RESEND_COOLDOWN * 1000
                     => LET again == IssuingHandler(op, out.store, t2, b, serial + 1, k)
                        IN  /\ again.mail = <<>>
                            /\ ThrottledWith(Res(again), RESEND_COOLDOWN * 1000 - (t2 - now))

\* a challenge issued 59.001 s ago is stored: a request now has 999 ms to wait
C5_Witness ==
    /\ MapHas(verifyStore, EmailA)
    /\ now - verifyStore[EmailA].lastSentAt = RESEND_COOLDOWN * 1000 - 999
    /\ Res(SendCodeHandler(verifyStore, now, [identifier |-> EmailA], 0, 0)).status = 429

-----------------------------------------------------------------------------
\* C6: a verify-code made when now > expiresAt, whatever its code and the
\* attempts so far, gets the expiry error and removes the challenge; every
\* later verify-code for the identifier then finds no challenge.
C6_ExpiredIsRemoved ==
    \A b \in VerifyBodies :
        LET i == NormalizeIdentifier(b)
            out == VerifyCodeHandler(verifyStore, now, b)
        IN  (MapHas(verifyStore, i) /\ now > verifyStore[i].expiresAt)
            => /\ Res(out) = Response(400, BodyExpired)
               /\ ~MapHas(out.store, i)
               /\ NoPendingFrom(out.store, i)

\* a challenge was removed by a verify-code that came after its expiry
C6_Witness ==
    \E s \in 1..Len(fate) : fate[s] = "expired" /\ ~MapHas(verifyStore, EmailA)

-----------------------------------------------------------------------------
\* C7: under every interleaving of the steps of send-code, admin-send-code
\* and verify-code, the stored attempts equal the number of submissions
\* counted against the stored entry (no increment is lost), an entry that has
\* left the store is never in it again, and the part of an issuing request
\* that runs after the delivery does not write to the store.
C7_NoLostUpdateNoResurrection ==
    /\ \A i \in DOMAIN verifyStore :
          /\ fate[verifyStore[i].serial] = "live"
          /\ MapHas(submitted, i)
          /\ verifyStore[i].attempts = submitted[i]
    /\ \A s \in DOMAIN inflight :
          /\ MailResolvedHandler(verifyStore, s).store = verifyStore
          /\ MailRejectedHandler(verifyStore, s).store = verifyStore

\* a verify-code consumed a challenge whose delivery is still in flight
C7_Witness ==
    \E s \in DOMAIN inflight : fate[s] = "match"

-----------------------------------------------------------------------------
\* the ways the claim lets a challenge leave the store
ThreeEvents == {"match", "expired", "attempts"}

\* C8 as stated: a challenge leaves the store only by a code match, by the
\* first verify-code after its expiry or by the verify-code that pushes its
\* attempts above the ceiling.
C8_OnlyThreeEvents ==
    \A s \in 1..Len(fate) : fate[s] \in {"live"} \cup ThreeEvents

\* C8, amended: a challenge leaves the store exactly once, and only by one of
\* four events: the three above, or its replacement by the verifyStore.set of
\* an accepted send-code or admin-send-code for its identifier.  An entry is in
\* the store exactly while it has not left, rejected requests of every kind
\* and the settling of a delivery remove nothing, and verify-code removes
\* nothing when it answers invalid-code.
C8_LeavesOnceByFourEvents ==
    /\ \A s \in 1..Len(fate) :
          /\ fate[s] \in {"live", "overwritten"} \cup ThreeEvents
          /\ fate[s] = "live" <=> s \in Serials(verifyStore)
    /\ \A s \in DOMAIN inflight :
          /\ Serials(MailResolvedHandler(verifyStore, s).store) = Serials(verifyStore)
          /\ Serials(MailRejectedHandler(verifyStore, s).store) = Serials(verifyStore)
    /\ \A op \in IssuingOps : \A b \in BodiesOf(op) : \A k \in RandomDraws :
          LET out == IssuingHandler(op, verifyStore, now, b, Len(fate) + 1, k)
          IN  out.mail = <<>> => out.store = verifyStore
    /\ \A b \in VerifyBodies :
          LET out == VerifyCodeHandler(verifyStore, now, b)
          IN  Res(out).body \in {BodyNoCode, BodyInvalidCode}
              => Serials(out.store) = Serials(verifyStore)

\* a challenge was replaced by a later issuance, and the replacement has left too
C8_Witness ==
    \E s \in 1..Len(fate) : \E r \in 1..Len(fate) :
        fate[s] = "overwritten" /\ fate[r] \in ThreeEvents

-----------------------------------------------------------------------------
\* the JSON fields of the responses that hold fixed text, numbers or booleans
FixedFields == {"ok", "valid", "message", "error", "wait", "token"}

\* some field of a response body, or of the claims of its token, is the code
Carries(body, code) ==
    \/ \E f \in DOMAIN body \ FixedFields : body[f] = code
    \/ /\ Has(body, "token")
       /\ \E f \in DOMAIN body.token.payload \ {"iat", "exp"} :
             body.token.payload[f] = code

\* the codes that are stored or that genCode can return
KnownCodes ==
    { verifyStore[i].code : i \in DOMAIN verifyStore }
        \cup { genCode(k) : k \in RandomDraws }

CarriesNoCode(body) == \A c \in KnownCodes : ~Carries(body, c)

\* C9: no response of send-code, admin-send-code (before and after the
\* delivery), verify-code or verify-token carries a verification code, on
\* success or on error; the code a request generates is in the message it
\* hands to mailer.sendMail, addressed to the identifier.
C9_CodeNeverInResponse ==
    /\ \A op \in IssuingOps : \A b \in BodiesOf(op) : \A k \in RandomDraws :
          LET out == IssuingHandler(op, verifyStore, now, b, Len(fate) + 1, k)
          IN  /\ \A n \in 1..Len(out.res) : CarriesNoCode(out.res[n].body)
              /\ out.mail # <<>>
                 => /\ out.res = <<>>
                    /\ out.mail[1].to = NormalizeIdentifier(b)
                    /\ out.mail[1].code = genCode(k)
                    /\ out.store[NormalizeIdentifier(b)].code = genCode(k)
    /\ \A s \in DOMAIN inflight :
          /\ CarriesNoCode(Res(MailResolvedHandler(verifyStore, s)).body)
          /\ CarriesNoCode(Res(MailRejectedHandler(verifyStore, s)).body)
    /\ \A b \in VerifyBodies :
          CarriesNoCode(Res(VerifyCodeHandler(verifyStore, now, b)).body)
    /\ \A b \in TokenBodies :
          CarriesNoCode(Res(VerifyTokenHandler(verifyStore, now, b)).body)

\* a code is stored and in delivery, and a wrong guess at it has been answered
C9_Witness ==
    \E i \in DOMAIN verifyStore :
        /\ verifyStore[i].attempts > 0
        /\ verifyStore[i].serial \in DOMAIN inflight
        /\ inflight[verifyStore[i].serial] = i

-----------------------------------------------------------------------------
\* C10 as stated: on success the token and the response carry the normalized
\* identifier and the role stored in the challenge.
C10_TokenCarriesStoredRole ==
    \A b \in VerifyBodies :
        LET i == NormalizeIdentifier(b)
            res == Res(VerifyCodeHandler(verifyStore, now, b))
        IN  res.status = 200
            => /\ res.body.email = i
               /\ res.body.token.payload.email = i
               /\ res.body.role = verifyStore[i].role
               /\ res.body.token.payload.role = verifyStore[i].role

\* C10, amended: on success the token and the response carry the normalized
\* identifier and the role stored in the challenge, or 'user' when the stored
\* role is the empty string; nothing of the verify-code request enters them.
\* The stored role is the normalized role of the request that issued the
\* challenge, and neither a rejected send-code or admin-send-code naming
\* another role nor a wrong guess changes it.
C10_TokenCarriesStoredRoleOrUser ==
    /\ \A b \in VerifyBodies :
          LET i == NormalizeIdentifier(b)
              out == VerifyCodeHandler(verifyStore, now, b)
              res == Res(out)
              role == IF verifyStore[i].role = <<>> THEN RoleUser ELSE verifyStore[i].role
          IN  /\ res.status = 200
                 => /\ res.body.email = i
                    /\ res.body.token.payload.email = i
                    /\ res.body.role = role
                    /\ res.body.token.payload.role = role
              /\ MapHas(out.store, i) => out.store[i].role = verifyStore[i].role
    /\ \A op \in IssuingOps : \A b \in BodiesOf(op) : \A k \in RandomDraws :
          LET i == NormalizeIdentifier(b)
              out == IssuingHandler(op, verifyStore, now, b, Len(fate) + 1, k)
          IN  IF out.mail = <<>>
              THEN out.store = verifyStore
              ELSE out.store[i].role =
                      NormalizeRole(b, IF op = "admin-send-code" THEN RoleAdmin ELSE RoleUser)

\* a challenge issued with a blank role is stored, a send-code naming the role
\* 'user' is being throttled, and the right code now yields a token for 'user'
C10_Witness ==
    /\ MapHas(verifyStore, EmailA)
    /\ verifyStore[EmailA].role = <<>>
    /\ verifyStore[EmailA].attempts > 0
    /\ Res(SendCodeHandler(verifyStore, now,
            [identifier |-> RawEmailA, role |-> RawUser], 0, 0)).status = 429
    /\ \E b \in VerifyBodies :
          LET res == Res(VerifyCodeHandler(verifyStore, now, b))
          IN  res.status = 200 /\ res.body.token.payload.role = RoleUser

-----------------------------------------------------------------------------
\* the delays, in ms past the 24 hours that follow the minting, at which a
\* token is presented again
TokenLapses == {0, 1, 1000}

\* the verify-token response for a token presented at time t
Validate(store, t, token) == Res(VerifyTokenHandler(store, t, [token |-> token]))

\* C11: a token minted by verify-code for an identifier and a role, presented
\* to verify-token at the instant of its minting, is answered valid with
\* exactly that identifier and that role; presented 24 hours after its minting
\* or later, it is answered with the invalid-or-expired error.
C11_TokenRoundTrip ==
    \A b \in VerifyBodies :
        LET i == NormalizeIdentifier(b)
            out == VerifyCodeHandler(verifyStore, now, b)
        IN  Has(Res(out).body, "token")
            => LET token == Res(out).body.token
               IN  /\ token.payload.email = i
                   /\ token.payload.role = Res(out).body.role
                   /\ Validate(out.store, now, token)
                        = Response(200, [valid |-> TRUE, email |-> i,
                                         role |-> Res(out).body.role])
                   /\ \A d \in TokenLapses :
                         Validate(out.store, now + JWT_EXPIRES_IN * 1000 + d, token)
                            = Response(401, BodyInvalidToken)

\* 59.001 s after the start a stored admin challenge can be exchanged for a
\* token, which is valid now and invalid 24 hours from now
C11_Witness ==
    /\ now = RESEND_COOLDOWN * 1000 - 999
    /\ \E b \in VerifyBodies :
          LET out == VerifyCodeHandler(verifyStore, now, b)
          IN  /\ Has(Res(out).body, "token")
              /\ Res(out).body.token.payload.role = RoleAdmin
              /\ Validate(out.store, now, Res(out).body.token).status = 200
              /\ Validate(out.store, now + JWT_EXPIRES_IN * 1000,
                          Res(out).body.token).status = 401

-----------------------------------------------------------------------------
\* C12: verify-token changes nothing in the store and hands nothing to the
\* mailer, and its response for a token at an instant is the one it gives
\* against an empty store, whatever the store holds; a token that verify-code
\* mints gets the same response while its challenge is stored, once it is
\* consumed, and once a new challenge is issued for the identifier.
C12_ValidationIsPure ==
    /\ \A b \in TokenBodies :
          LET out == VerifyTokenHandler(verifyStore, now, b)
          IN  /\ out.store = verifyStore
              /\ out.mail = <<>>
              /\ Res(out) = Res(VerifyTokenHandler(EmptyMap, now, b))
    /\ \A b \in VerifyBodies :
          LET i == NormalizeIdentifier(b)
              out == VerifyCodeHandler(verifyStore, now, b)
          IN  Has(Res(out).body, "token")
              => LET token == Res(out).body.token
                     reissued == Issue(out.store, now, i, RoleUser, Len(fate) + 1, 0).store
                 IN  \A t2 \in Later :
                        /\ Validate(verifyStore, t2, token) = Validate(EmptyMap, t2, token)
                        /\ Validate(out.store, t2, token) = Validate(EmptyMap, t2, token)
                        /\ Validate(reissued, t2, token) = Validate(EmptyMap, t2, token)
                        /\ Validate(EmptyMap, t2, token).status = 200

\* a code was exchanged for a token at the first instant, a new challenge was
\* issued for the identifier and has expired, and the token is still valid
C12_Witness ==
    /\ Len(fate) = 2
    /\ fate[1] = "match"
    /\ minted[1] = 1
    /\ MapHas(verifyStore, EmailA)
    /\ verifyStore[EmailA].lastSentAt = 0
    /\ now > verifyStore[EmailA].expiresAt
    /\ \E role \in {RoleUser, RoleAdmin} :
          Validate(verifyStore, now, JwtSign(EmailA, role, 0, JWT_SECRET)).status = 200

-----------------------------------------------------------------------------
\* the ways a presented token fails validation
Malformed(token) == ~Has(token, "payload") \/ ~Has(token, "sig")

BadSignature(token) == ~Malformed(token) /\ token.sig # JWT_SECRET

ExpiredToken(token, t) ==
    /\ ~Malformed(token)
    /\ token.sig = JWT_SECRET
    /\ t \div 1000 >= token.payload.exp

\* C13: a presented token that is malformed, carries a bad signature or has
\* expired gets one and the same response, status 401 with the fixed
\* invalid-or-expired text and nothing else, at every instant; a token that
\* fails in none of these ways is answered valid.
C13_GenericInvalidOutcome ==
    \A b \in TokenBodies : \A t2 \in Later :
        Has(b, "token")
        => LET res == Validate(verifyStore, t2, b.token)
           IN  IF Malformed(b.token) \/ BadSignature(b.token) \/ ExpiredToken(b.token, t2)
               THEN /\ res = Response(401, BodyInvalidToken)
                    /\ DOMAIN res.body = {"valid", "error"}
               ELSE res.status = 200

\* at the instant CODE_TTL an expired token, a token signed with another key
\* and a malformed token are presented, and each is answered 401
C13_Witness ==
    /\ now = CODE_TTL * 1000
    /\ \E b1 \in TokenBodies : \E b2 \in TokenBodies : \E b3 \in TokenBodies :
          /\ Has(b1, "token") /\ Has(b2, "token") /\ Has(b3, "token")
          /\ ExpiredToken(b1.token, now)
          /\ BadSignature(b2.token)
          /\ Malformed(b3.token)
          /\ Validate(verifyStore, now, b1.token).status = 401
          /\ Validate(verifyStore, now, b2.token).status = 401
          /\ Validate(verifyStore, now, b3.token).status = 401

-----------------------------------------------------------------------------
\* the identifier is an element of the configured allow-list
OnAllowList(identifier) ==
    \E n \in 1..Len(ADMIN_EMAILS) : ADMIN_EMAILS[n] = identifier

\* C14: with a non-empty allow-list, an admin-send-code for an identifier of
\* valid syntax that is not on the list gets the 403 access-denied error, which
\* is not the validation error, hands nothing to the mailer and leaves the
\* store as it is; for an identifier on the list the request is throttled
\* inside the cooldown and otherwise stores a challenge, hands the code to the
\* mailer and answers success once the delivery resolves.
C14_AdminAllowList ==
    Len(ADMIN_EMAILS) > 0
    => \A b \in AdminBodies : \A k \in RandomDraws :
          LET i == NormalizeIdentifier(b)
              serial == Len(fate) + 1
              out == AdminSendCodeHandler(verifyStore, now, b, serial, k)
          IN  (i # <<>> /\ EmailRegexTest(i))
              => IF ~OnAllowList(i)
                 THEN /\ out.mail = <<>>
                      /\ out.store = verifyStore
                      /\ Res(out) = Response(403, BodyAccessDenied)
                      /\ Res(out) # Response(400, BodyInvalidEmail)
                 ELSE IF MapHas(verifyStore, i)
                         /\ now - verifyStore[i].lastSentAt < RESEND_COOLDOWN * 1000
                 THEN out.mail = <<>> /\ Res(out).status = 429
                 ELSE /\ out.mail = <<MailMessage(i, genCode(k))>>
                      /\ out.res = <<>>
                      /\ MapHas(out.store, i)
                      /\ out.store[i].serial = serial
                      /\ Res(MailResolvedHandler(out.store, serial))
                            = Response(200, BodyCodeSent)

\* a challenge issued by admin-send-code with its default role is stored and
\* delivered, and the client that is not on the list is being refused
C14_Witness ==
    /\ Len(ADMIN_EMAILS) > 0
    /\ MapHas(verifyStore, EmailA)
    /\ verifyStore[EmailA].role = RoleAdmin
    /\ verifyStore[EmailA].serial \notin DOMAIN inflight
    /\ ~OnAllowList(EmailX)
    /\ Res(AdminSendCodeHandler(verifyStore, now, [identifier |-> RawEmailX],
                                Len(fate) + 1, 0)).status = 403

-----------------------------------------------------------------------------
\* the role an endpoint stores when the request names none
DefaultRole(op) == IF op = "admin-send-code" THEN RoleAdmin ELSE RoleUser

\* C15: the store holds at most one challenge per identifier: its keys are
\* normalized identifiers, each holds one entry, and the entries that have not
\* left are exactly the stored ones.  An accepted send-code or admin-send-code
\* puts under the identifier a new entry with the code just generated, the
\* role of the request, attempts 0, lastSentAt = now and expiresAt = now +
\* CODE_TTL * 1000; that entry is the one the request would store into an
\* empty store, the entry stored before is no longer in the store, and no
\* other key changes.
C15_IssuanceReplacesWholesale ==
    /\ \A i \in DOMAIN verifyStore : toLowerCase(trim(i)) = i
    /\ Cardinality(Serials(verifyStore)) = Cardinality(DOMAIN verifyStore)
    /\ Cardinality({ s \in 1..Len(fate) : fate[s] = "live" })
          = Cardinality(DOMAIN verifyStore)
    /\ \A op \in IssuingOps : \A b \in BodiesOf(op) : \A k \in RandomDraws :
          LET i == NormalizeIdentifier(b)
              serial == Len(fate) + 1
              out == IssuingHandler(op, verifyStore, now, b, serial, k)
          IN  out.mail # <<>>
              => /\ DOMAIN out.store = DOMAIN verifyStore \cup {i}
                 /\ \A j \in DOMAIN verifyStore : j # i => out.store[j] = verifyStore[j]
                 /\ out.store[i] = [ code |-> genCode(k),
                                     role |-> NormalizeRole(b, DefaultRole(op)),
                                     expiresAt |-> now + CODE_TTL * 1000,
                                     lastSentAt |-> now,
                                     attempts |-> 0,
                                     serial |-> serial ]
                 /\ out.store[i] = IssuingHandler(op, EmptyMap, now, b, serial, k).store[i]
                 /\ serial \notin Serials(verifyStore)
                 /\ Serials(out.store) \cap Serials(verifyStore)
                       = { verifyStore[j].serial : j \in DOMAIN verifyStore \ {i} }

\* a challenge that had been guessed at was replaced, just now, by a new one
\* with no attempts, which is the only entry of the store
C15_Witness ==
    /\ \E s \in 1..Len(fate) : fate[s] = "overwritten"
    /\ DOMAIN verifyStore = {EmailA}
    /\ verifyStore[EmailA].attempts = 0
    /\ verifyStore[EmailA].lastSentAt = now
    /\ verifyStore[EmailA].serial = Len(fate)
    /\ now >= RESEND_COOLDOWN * 1000

-----------------------------------------------------------------------------
\* C16: a verify-code made at now <= expiresAt, with attempts + 1 at most 6
\* and a code other than the stored one, gets the invalid-code error, hands
\* nothing to the mailer and leaves the store as it was but for attempts + 1
\* in the same entry (code, role, expiresAt, lastSentAt and identity as before);
\* while attempts + 2 is at most 6, a submission of the stored code at any
\* later instant up to expiresAt succeeds with a token.
C16_MismatchKeepsChallenge ==
    \A b \in VerifyBodies :
        LET i == NormalizeIdentifier(b)
            out == VerifyCodeHandler(verifyStore, now, b)
        IN  ( /\ MapHas(verifyStore, i)
              /\ now <= verifyStore[i].expiresAt
              /\ verifyStore[i].attempts + 1 <= MAX_ATTEMPTS
              /\ SubmittedCode(b) # verifyStore[i].code )
            => /\ Res(out) = Response(400, BodyInvalidCode)
               /\ out.mail = <<>>
               /\ DOMAIN out.store = DOMAIN verifyStore
               /\ \A j \in DOMAIN verifyStore : j # i => out.store[j] = verifyStore[j]
               /\ out.store[i].attempts = verifyStore[i].attempts + 1
               /\ \A f \in DOMAIN verifyStore[i] \ {"attempts"} :
                     out.store[i][f] = verifyStore[i][f]
               /\ verifyStore[i].attempts + 2 <= MAX_ATTEMPTS
                  => \A t2 \in Later :
                        t2 <= verifyStore[i].expiresAt
                        => LET retry == VerifyCodeHandler(out.store, t2,
                                            [identifier |-> i, code |-> verifyStore[i].code])
                           IN  /\ Res(retry).status = 200
                               /\ Has(Res(retry).body, "token")
                               /\ ~MapHas(retry.store, i)

\* five wrong codes have been submitted against a challenge that is at the last
\* instant of its validity, and the right code is still accepted
C16_Witness ==
    /\ MapHas(verifyStore, EmailA)
    /\ verifyStore[EmailA].attempts = MAX_ATTEMPTS - 1
    /\ submitted[EmailA] = MAX_ATTEMPTS - 1
    /\ now = verifyStore[EmailA].expiresAt
    /\ Res(VerifyCodeHandler(verifyStore, now,
            [identifier |-> EmailA, code |-> verifyStore[EmailA].code])).status = 200

-----------------------------------------------------------------------------
(* The server as a client that is not on the allow-list meets it: every     *)
(* request names the address x@b.d and the role 'Admin'.                    *)

RawAdmin == <<"A", "d", "m", "i", "n">>

OutsiderSendBodies == { [identifier |-> RawEmailX, role |-> RawAdmin] }

OutsiderAdminBodies == { [identifier |-> RawEmailX, role |-> RawAdmin] }

OutsiderVerifyBodies ==
    { [identifier |-> EmailX, code |-> genCode(k)] : k \in RandomDraws }
        \cup { [identifier |-> RawEmailX, code |-> <<"0", "0", "0", "0", "0", "0">>] }

NextOutsider ==
    \/ \E body \in OutsiderSendBodies : SendCode(body)
    \/ \E body \in OutsiderAdminBodies : AdminSendCode(body)
    \/ \E s \in DOMAIN inflight : MailResolved(s)
    \/ \E s \in DOMAIN inflight : MailRejected(s)
    \/ \E body \in OutsiderVerifyBodies : VerifyCode(body)
    \/ Tick

SpecOutsider == Init /\ [][NextOutsider]_vars

-----------------------------------------------------------------------------
\* C18: a send-code or admin-send-code whose normalized identifier is empty or
\* does not match the email pattern is answered at once with the 400
\* validation error: nothing is handed to the mailer and the store is left as
\* it is, whatever it holds and whatever the role and the draw.
C18_ValidationFailsFast ==
    \A op \in IssuingOps : \A b \in BodiesOf(op) : \A k \in RandomDraws :
        LET i == NormalizeIdentifier(b)
            out == IssuingHandler(op, verifyStore, now, b, Len(fate) + 1, k)
        IN  (i = <<>> \/ ~EmailRegexTest(i))
            => /\ out.mail = <<>>
               /\ out.store = verifyStore
               /\ out.res = <<Response(400, BodyInvalidEmail)>>

\* a challenge is stored whose cooldown is over, so that a request with its
\* identifier would be accepted; the requests with "a@b" and with no
\* identifier are refused by both endpoints
C18_Witness ==
    /\ MapHas(verifyStore, EmailA)
    /\ now - verifyStore[EmailA].lastSentAt >= RESEND_COOLDOWN * 1000
    /\ \A op \in IssuingOps :
          /\ Res(IssuingHandler(op, verifyStore, now, [identifier |-> NotAnEmail],
                                Len(fate) + 1, 0)).status = 400
          /\ Res(IssuingHandler(op, verifyStore, now, EmptyBody,
                                Len(fate) + 1, 0)).status = 400

-----------------------------------------------------------------------------
(* The server with a mailer whose every sendMail call settles *)

FairSpec ==
    Spec /\ \A s \in 1..MaxIssued : WF_vars(MailResolved(s) \/ MailRejected(s))

\* every request that can arrive now is answered once or waits for the mailer,
\* and every request that waits is answered once when the mailer settles
OneResponseEach ==
    /\ \A op \in IssuingOps : \A b \in BodiesOf(op) : \A k \in RandomDraws :
          LET out == IssuingHandler(op, verifyStore, now, b, Len(fate) + 1, k)
          IN  Len(out.res) + Len(out.mail) = 1
    /\ \A b \in VerifyBodies :
          LET out == VerifyCodeHandler(verifyStore, now, b)
          IN  Len(out.res) = 1 /\ out.mail = <<>>
    /\ \A b \in TokenBodies :
          LET out == VerifyTokenHandler(verifyStore, now, b)
          IN  Len(out.res) = 1 /\ out.mail = <<>>
    /\ \A s \in DOMAIN inflight :
          /\ s \in 1..Len(fate)
          /\ Len(MailResolvedHandler(verifyStore, s).res) = 1
          /\ MailResolvedHandler(verifyStore, s).mail = <<>>
          /\ Len(MailRejectedHandler(verifyStore, s).res) = 1
          /\ MailRejectedHandler(verifyStore, s).mail = <<>>

\* a request starts to wait only when it is issued, so that none waits again
\* after its answer
AwaitOnce ==
    \A s \in DOMAIN inflight' \ DOMAIN inflight : s = Len(fate) + 1 /\ s = Len(fate')

\* C19: in every state, after whatever failures, each request of the four
\* endpoints is served: it is answered exactly once at once, or it hands one
\* message to the mailer and waits; a waiting request is answered exactly once
\* when the mailer resolves or rejects, never waits again, and, the mailer
\* settling every call, does not wait for ever.
C19_EveryRequestAnswered ==
    /\ []OneResponseEach
    /\ [][AwaitOnce]_vars
    /\ \A s \in 1..MaxIssued : (s \in DOMAIN inflight) ~> (s \notin DOMAIN inflight)

\* a challenge was locked out by too many attempts, and a later request for
\* the same identifier has been served: its challenge is stored and its
\* delivery has settled
C19_Witness ==
    /\ \E s \in 1..Len(fate) : \E r \in 1..Len(fate) :
          s < r /\ fate[s] = "attempts" /\ fate[r] = "live"
    /\ inflight = EmptyMap

-----------------------------------------------------------------------------
\* Number(s) of a string of decimal digits
DigitValue(c) == CHOOSE d \in 0..9 : Digit(d) = c

RECURSIVE StringToNumber(_)
StringToNumber(s) ==
    IF s = <<>> THEN 0
    ELSE 10 * StringToNumber(SubSeq(s, 1, Len(s) - 1)) + DigitValue(s[Len(s)])

\* every stored challenge has 0 <= attempts <= 6, as many attempts as
\* verify-code requests have been counted against it, expiresAt = lastSentAt +
\* CODE_TTL * 1000 and a code of 6 decimal digits between 100000 and 999999
EntryShape ==
    \A i \in DOMAIN verifyStore :
        LET entry == verifyStore[i]
        IN  /\ entry.attempts \in 0..MAX_ATTEMPTS
            /\ entry.attempts = submitted[i]
            /\ entry.expiresAt = entry.lastSentAt + CODE_TTL * 1000
            /\ Len(entry.code) = 6
            /\ \A n \in 1..Len(entry.code) : \E d \in 0..9 : entry.code[n] = Digit(d)
            /\ StringToNumber(entry.code) \in CODE_BASE..(CODE_BASE + CODE_SPAN - 1)

\* no step lowers the attempts of an entry that stays in the store
AttemptsNeverDecrease ==
    \A i \in DOMAIN verifyStore \cap DOMAIN verifyStore' :
        verifyStore'[i].serial = verifyStore[i].serial
        => verifyStore'[i].attempts >= verifyStore[i].attempts

\* C20: in every reachable state each stored challenge has an integer attempts
\* with 0 <= attempts <= 6 that equals the number of verify-code submissions
\* counted against it since it was issued, expiresAt = lastSentAt + TTL and a
\* 6-digit code in [100000, 999999]; and no step lowers the attempts of a
\* challenge while it is stored.
C20_EntryInvariants ==
    /\ []EntryShape
    /\ [][AttemptsNeverDecrease]_vars

\* the challenge with the greatest code has been guessed at 6 times
C20_Witness ==
    /\ MapHas(verifyStore, EmailA)
    /\ verifyStore[EmailA].attempts = MAX_ATTEMPTS
    /\ StringToNumber(verifyStore[EmailA].code) = CODE_BASE + CODE_SPAN - 1

-----------------------------------------------------------------------------
\* the request passes the checks that come before the cooldown check
PassesChecks(op, i) ==
    /\ i # <<>>
    /\ EmailRegexTest(i)
    /\ op = "admin-send-code" => (Len(ADMIN_EMAILS) = 0 \/ OnAllowList(i))

\* a challenge is stored for i and was issued less than the cooldown ago
Cooling(i) ==
    /\ MapHas(verifyStore, i)
    /\ now - verifyStore[i].lastSentAt < RESEND_COOLDOWN * 1000

\* C21: a send-code or admin-send-code that finds a challenge issued less than
\* the cooldown ago, whatever its role and the draw, is answered 429, hands
\* nothing to the mailer and leaves the store as it is, the stored entry with
\* every field as before; the code stored before it is still the one that
\* verify-code accepts.
C21_ThrottledChangesNothing ==
    \A op \in IssuingOps : \A b \in BodiesOf(op) :
        LET i == NormalizeIdentifier(b)
        IN  (PassesChecks(op, i) /\ Cooling(i))
            => \A k \in RandomDraws :
                  LET out == IssuingHandler(op, verifyStore, now, b, Len(fate) + 1, k)
                      before == VerifyCodeHandler(verifyStore, now,
                                    [identifier |-> i, code |-> verifyStore[i].code])
                      after == VerifyCodeHandler(out.store, now,
                                    [identifier |-> i, code |-> verifyStore[i].code])
                  IN  /\ out.mail = <<>>
                      /\ Res(out).status = 429
                      /\ DOMAIN out.store = DOMAIN verifyStore
                      /\ out.store[i] = verifyStore[i]
                      /\ after = before
                      /\ (now <= verifyStore[i].expiresAt
                            /\ verifyStore[i].attempts < MAX_ATTEMPTS)
                         => Res(after).status = 200

\* 59.001 s after its issuance a challenge that has been guessed at is stored,
\* and both endpoints throttle a request that names another role
C21_Witness ==
    /\ MapHas(verifyStore, EmailA)
    /\ verifyStore[EmailA].lastSentAt = 0
    /\ now = RESEND_COOLDOWN * 1000 - 999
    /\ verifyStore[EmailA].attempts > 0
    /\ \A op \in IssuingOps :
          Res(IssuingHandler(op, verifyStore, now,
                  [identifier |-> EmailA, role |-> Blank], Len(fate) + 1, 0)).status = 429

-----------------------------------------------------------------------------
\* a code that genCode never returns
WrongCode == <<"0", "0", "0", "0", "0", "0">>

\* the store after n verify-code requests with a wrong code for i at time t
RECURSIVE AfterGuesses(_, _, _, _)
AfterGuesses(store, t, i, n) ==
    IF n = 0 THEN store
    ELSE VerifyCodeHandler(AfterGuesses(store, t, i, n - 1), t,
                           [identifier |-> i, code |-> WrongCode]).store

\* C22: a send-code that finds a challenge issued the cooldown ago or longer
\* (now - lastSentAt >= cooldown) is accepted and stores a new entry with
\* attempts 0; the code of the entry it replaced then gets the invalid-code
\* error, unless the new code equals it, and the new code is still accepted
\* after MAX_ATTEMPTS - 1 wrong guesses.
C22_AcceptedAfterCooldown ==
    \A b \in SendBodies :
        LET i == NormalizeIdentifier(b)
        IN  ( /\ PassesChecks("send-code", i)
              /\ MapHas(verifyStore, i)
              /\ now - verifyStore[i].lastSentAt >= RESEND_COOLDOWN * 1000 )
            => \A k \in RandomDraws :
                  LET out == SendCodeHandler(verifyStore, now, b, Len(fate) + 1, k)
                      old == verifyStore[i].code
                  IN  /\ out.mail # <<>>
                      /\ out.store[i].serial # verifyStore[i].serial
                      /\ out.store[i].attempts = 0
                      /\ LET v == VerifyCodeHandler(out.store, now,
                                      [identifier |-> i, code |-> old])
                         IN  IF old # genCode(k)
                             THEN Res(v) = Response(400, BodyInvalidCode)
                             ELSE Res(v).status = 200
                      /\ Res(VerifyCodeHandler(
                               AfterGuesses(out.store, now, i, MAX_ATTEMPTS - 1), now,
                               [identifier |-> i, code |-> genCode(k)])).status = 200

\* a challenge issued at the first instant was replaced at the instant the
\* cooldown elapsed, exactly RESEND_COOLDOWN seconds later
C22_Witness ==
    /\ Len(fate) = 2
    /\ fate[1] = "overwritten"
    /\ MapHas(verifyStore, EmailA)
    /\ verifyStore[EmailA].serial = 2
    /\ verifyStore[EmailA].lastSentAt = RESEND_COOLDOWN * 1000

-----------------------------------------------------------------------------
\* C23: verify-code tests absence, then expiry, then the attempt ceiling, then
\* the code: with no challenge stored it answers no-code-requested; with one
\* stored and now > expiresAt it answers expired, whatever the attempts and the
\* code; at now <= expiresAt (now = expiresAt included) with attempts + 1 above
\* the ceiling it answers too-many-attempts, whatever the code; below the
\* ceiling it answers invalid-code for a code other than the stored one and
\* success for the stored one.
C23_OrderOfChecks ==
    \A b \in VerifyBodies :
        LET i == NormalizeIdentifier(b)
            res == Res(VerifyCodeHandler(verifyStore, now, b))
        IN  IF ~MapHas(verifyStore, i)
               THEN res = Response(400, BodyNoCode)
            ELSE IF now > verifyStore[i].expiresAt
               THEN res = Response(400, BodyExpired)
            ELSE IF verifyStore[i].attempts + 1 > MAX_ATTEMPTS
               THEN res = Response(429, BodyTooMany)
            ELSE IF SubmittedCode(b) # verifyStore[i].code
               THEN res = Response(400, BodyInvalidCode)
            ELSE res.status = 200

\* the states in which the order shows: an expired challenge at the ceiling
\* whose own code gets the expiry error
ExpiredAtCeiling ==
    /\ MapHas(verifyStore, EmailA)
    /\ now > verifyStore[EmailA].expiresAt
    /\ verifyStore[EmailA].attempts = MAX_ATTEMPTS
    /\ Res(VerifyCodeHandler(verifyStore, now,
           [identifier |-> EmailA, code |-> verifyStore[EmailA].code]))
          = Response(400, BodyExpired)

\* a challenge at the ceiling at the very instant expiresAt, whose own code
\* gets the too-many-attempts error
C23_Witness ==
    /\ MapHas(verifyStore, EmailA)
    /\ now = verifyStore[EmailA].expiresAt
    /\ verifyStore[EmailA].attempts = MAX_ATTEMPTS
    /\ Res(VerifyCodeHandler(verifyStore, now,
           [identifier |-> EmailA, code |-> verifyStore[EmailA].code]))
          = Response(429, BodyTooMany)

-----------------------------------------------------------------------------
(* The server started with or without ADMIN_EMAILS, met by a client that    *)
(* names the address x@b.d and leaves the role to the route's default.      *)

\* process.env.ADMIN_EMAILS set as above, or unset: ''.split(',') is ['']
EnvAdminEmailsOrUnset == EnvAdminEmails \cup { << <<>> >> }

InitAllowList ==
    /\ now = 0
    /\ verifyStore = EmptyMap
    /\ inflight = EmptyMap
    /\ envAdminEmails \in EnvAdminEmailsOrUnset
    /\ fate = <<>>
    /\ minted = <<>>
    /\ submitted = EmptyMap

DefaultRoleBodies == { [identifier |-> RawEmailX] }

NextAllowList ==
    \/ \E body \in DefaultRoleBodies : SendCode(body)
    \/ \E body \in DefaultRoleBodies : AdminSendCode(body)
    \/ \E s \in DOMAIN inflight : MailResolved(s)
    \/ \E s \in DOMAIN inflight : MailRejected(s)
    \/ \E body \in OutsiderVerifyBodies : VerifyCode(body)
    \/ Tick

SpecAllowList == InitAllowList /\ [][NextAllowList]_vars

\* C24: with an empty allow-list admin-send-code never answers 403: a valid
\* identifier is throttled inside its cooldown and otherwise gets a challenge
\* stored and a code mailed.  With a non-empty list a valid identifier that is
\* not on it gets 403 with the store untouched, also while a challenge for it
\* is inside its cooldown, where send-code answers 429.
C24_AllowListFirst ==
    \A b \in AdminBodies :
        LET i == NormalizeIdentifier(b)
        IN  ValidEmail(i)
            => \A k \in RandomDraws :
                  LET out == AdminSendCodeHandler(verifyStore, now, b, Len(fate) + 1, k)
                  IN  IF Len(ADMIN_EMAILS) = 0
                      THEN IF Cooling(i)
                           THEN /\ out.mail = <<>>
                                /\ Res(out).status = 429
                           ELSE /\ out.mail # <<>>
                                /\ MapHas(out.store, i)
                                /\ out.store[i].code = genCode(k)
                      ELSE ~OnAllowList(i)
                           => /\ out.mail = <<>>
                              /\ out.store = verifyStore
                              /\ Res(out) = Response(403, BodyAccessDenied)
                              /\ Cooling(i)
                                 => LET sent == SendCodeHandler(verifyStore, now, b, Len(fate) + 1, k)
                                    IN  /\ sent.mail = <<>>
                                        /\ Res(sent).status = 429

\* without an allow-list, admin-send-code has issued a challenge for x@b.d and
\* the code has been delivered
C24_Witness ==
    /\ Len(ADMIN_EMAILS) = 0
    /\ MapHas(verifyStore, EmailX)
    /\ verifyStore[EmailX].role = RoleAdmin
    /\ verifyStore[EmailX].serial \notin DOMAIN inflight

\* with an allow-list, x@b.d is inside its cooldown and admin-send-code
\* answers 403
ForbiddenWhileCooling ==
    /\ Len(ADMIN_EMAILS) > 0
    /\ Cooling(EmailX)
    /\ \A k \in RandomDraws :
          Res(AdminSendCodeHandler(verifyStore, now, [identifier |-> RawEmailX],
                                   Len(fate) + 1, k)).status = 403

-----------------------------------------------------------------------------
\* the stores a challenge of i can be followed by before the next issuing
\* request: the store as it is, the store after a verify-code for i, the store
\* after the delivery of its code has failed
StoresAfter(i) ==
    {verifyStore}
        \cup { VerifyCodeHandler(verifyStore, now, b).store : b \in VerifyBodiesFor(i) }
        \cup { MailRejectedHandler(verifyStore, s).store :
                  s \in {verifyStore[i].serial} \cap DOMAIN inflight }

\* C25: an accepted issuance for an identifier (a code generated and handed to
\* the mailer) comes at least the cooldown after the previous accepted issuance
\* for it, also when a verify-code has removed the challenge or the delivery
\* has failed in between.
C25_IssuancesCooldownApart ==
    \A i \in DOMAIN verifyStore :
        \A store \in StoresAfter(i) : \A t2 \in Later :
            \A op \in IssuingOps : \A b \in BodiesOf(op) :
                NormalizeIdentifier(b) = i
                => \A k \in RandomDraws :
                      IssuingHandler(op, store, t2, b, Len(fate) + 1, k).mail # <<>>
                      => t2 - verifyStore[i].lastSentAt >= RESEND_COOLDOWN * 1000

-----------------------------------------------------------------------------
\* C26: a verify-code answers with a token only when a challenge is stored for
\* its identifier, the submitted code is the stored code, now <= expiresAt and
\* the attempts after the increment are at most 6; the token names that
\* identifier.  No response of send-code, admin-send-code or verify-token
\* holds a token, so every token counted belongs to an issued challenge that
\* left the store by a match, and one challenge yields at most one token.
C26_TokenOnlyByMatch ==
    /\ \A b \in VerifyBodies :
          LET i == NormalizeIdentifier(b)
              res == Res(VerifyCodeHandler(verifyStore, now, b))
          IN  Has(res.body, "token")
              => /\ MapHas(verifyStore, i)
                 /\ SubmittedCode(b) = verifyStore[i].code
                 /\ now <= verifyStore[i].expiresAt
                 /\ verifyStore[i].attempts + 1 <= MAX_ATTEMPTS
                 /\ res.body.token.payload.email = i
    /\ \A op \in IssuingOps : \A b \in BodiesOf(op) : \A k \in RandomDraws :
          LET out == IssuingHandler(op, verifyStore, now, b, Len(fate) + 1, k)
          IN  out.res # <<>> => ~Has(Res(out).body, "token")
    /\ \A s \in DOMAIN inflight :
          /\ ~Has(Res(MailResolvedHandler(verifyStore, s)).body, "token")
          /\ ~Has(Res(MailRejectedHandler(verifyStore, s)).body, "token")
    /\ \A b \in TokenBodies :
          ~Has(Res(VerifyTokenHandler(verifyStore, now, b)).body, "token")
    /\ Len(minted) = Len(fate)
    /\ \A s \in 1..Len(minted) :
          /\ minted[s] <= 1
          /\ minted[s] = 1 => fate[s] = "match"

\* the second challenge issued has yielded a token, the first none
C26_Witness ==
    /\ Len(fate) = 2
    /\ fate[1] = "overwritten"
    /\ fate[2] = "match"
    /\ minted = <<0, 1>>

-----------------------------------------------------------------------------
\* a response that tells the outcome of a comparison with the stored code
Compared(res) == res.status = 200 \/ res = Response(400, BodyInvalidCode)

\* C27: the submissions compared with the code of a stored challenge are
\* counted by its attempts and never exceed 6; once they are 6, a verify-code
\* for the identifier at any later instant, the stored code included, is
\* answered without a comparison and removes the challenge, after which the
\* identifier has no challenge until an issuance stores a new one.
C27_SixComparisonsPerCode ==
    \A i \in DOMAIN verifyStore :
        /\ submitted[i] = verifyStore[i].attempts
        /\ submitted[i] <= MAX_ATTEMPTS
        /\ submitted[i] = MAX_ATTEMPTS
           => \A t2 \in Later : \A b \in VerifyBodiesFor(i) :
                 LET out == VerifyCodeHandler(verifyStore, t2, b)
                 IN  /\ ~Compared(Res(out))
                     /\ ~MapHas(out.store, i)
                     /\ Res(VerifyCodeHandler(out.store, t2, b)) = NoPending

\* six codes have been compared with the code of a challenge that is not yet
\* expired, and the code itself is refused
C27_Witness ==
    /\ MapHas(verifyStore, EmailA)
    /\ submitted[EmailA] = MAX_ATTEMPTS
    /\ now < verifyStore[EmailA].expiresAt
    /\ ~Compared(Res(VerifyCodeHandler(verifyStore, now,
            [identifier |-> EmailA, code |-> verifyStore[EmailA].code])))

-----------------------------------------------------------------------------
(* The server met by two clients, one with the address a@b.d and one with   *)
(* the address x@b.d, so that the store holds two challenges at a time.     *)

TwoClientSendBodies == { [identifier |-> EmailA], [identifier |-> RawEmailX] }

TwoClientVerifyBodies ==
    { [identifier |-> EmailA, code |-> c] : c \in {genCode(0), WrongCode} }

NextTwoClients ==
    \/ \E body \in TwoClientSendBodies : SendCode(body)
    \/ \E body \in OutsiderAdminBodies : AdminSendCode(body)
    \/ \E s \in DOMAIN inflight : MailResolved(s)
    \/ \E s \in DOMAIN inflight : MailRejected(s)
    \/ \E body \in TwoClientVerifyBodies : VerifyCode(body)
    \/ Tick

SpecTwoClients == Init /\ [][NextTwoClients]_vars

\* the store `store2` holds for every identifier other than i what `store`
\* holds for it: the same keys, and under each the same entry
SameElsewhere(store, store2, i) ==
    /\ DOMAIN store2 \ {i} = DOMAIN store \ {i}
    /\ \A j \in DOMAIN store \ {i} : store2[j] = store[j]

\* C28: a send-code, an admin-send-code (before and after the delivery) or a
\* verify-code for one identifier leaves the challenge of every other
\* identifier as it is, present or absent and with all its fields, whatever
\* the outcome of the request.
C28_OtherIdentifiersUntouched ==
    /\ \A op \in IssuingOps : \A b \in BodiesOf(op) \cup TwoClientSendBodies :
          \A k \in RandomDraws :
             SameElsewhere(verifyStore,
                           IssuingHandler(op, verifyStore, now, b, Len(fate) + 1, k).store,
                           NormalizeIdentifier(b))
    /\ \A s \in DOMAIN inflight :
          /\ SameElsewhere(verifyStore, MailResolvedHandler(verifyStore, s).store, inflight[s])
          /\ SameElsewhere(verifyStore, MailRejectedHandler(verifyStore, s).store, inflight[s])
    /\ \A b \in VerifyBodies \cup OutsiderVerifyBodies :
          SameElsewhere(verifyStore, VerifyCodeHandler(verifyStore, now, b).store,
                        NormalizeIdentifier(b))

\* x@b.d got its challenge first and a@b.d second; a wrong code has been
\* submitted for a@b.d and none for x@b.d
C28_Witness ==
    /\ MapHas(verifyStore, EmailA)
    /\ MapHas(verifyStore, EmailX)
    /\ verifyStore[EmailX].serial = 1
    /\ verifyStore[EmailA].serial = 2
    /\ verifyStore[EmailA].attempts = 1
    /\ verifyStore[EmailX].attempts = 0

-----------------------------------------------------------------------------
\* a@b.d as clients may type it: other letter case, surrounding whitespace
RawFormsOfA == { RawEmailA, <<"A", "@", "b", ".", "d">> }

\* the body b naming the identifier raw instead of its own
Naming(b, raw) == [b EXCEPT !.identifier = raw]

\* C29: send-code, admin-send-code and verify-code treat a raw identifier that
\* differs from a@b.d only in letter case and surrounding whitespace exactly as
\* a@b.d: the same store, the same message and the same response result, so
\* the two share one challenge, one cooldown and one attempt counter, and the
\* code issued under one form is accepted under the other.
C29_NormalizedIdentifierIsTheKey ==
    \A raw \in RawFormsOfA :
        /\ \A op \in IssuingOps : \A k \in RandomDraws :
              LET typed == IssuingHandler(op, verifyStore, now, [identifier |-> raw],
                                          Len(fate) + 1, k)
                  plain == IssuingHandler(op, verifyStore, now, [identifier |-> EmailA],
                                          Len(fate) + 1, k)
              IN  /\ typed = plain
                  /\ Cooling(EmailA) => typed.mail = <<>> /\ Res(typed).status = 429
                  /\ typed.mail # <<>>
                     => /\ DOMAIN typed.store = {EmailA}
                        /\ Res(VerifyCodeHandler(typed.store, now,
                               [identifier |-> EmailA, code |-> genCode(k)])).status = 200
                        /\ Res(VerifyCodeHandler(plain.store, now,
                               [identifier |-> raw, code |-> genCode(k)])).status = 200
        /\ \A b \in VerifyBodiesFor(EmailA) :
              Has(b, "code")
              => VerifyCodeHandler(verifyStore, now, Naming(b, raw))
                    = VerifyCodeHandler(verifyStore, now, Naming(b, EmailA))

\* a challenge for a@b.d with one failed attempt, inside its cooldown: sent
\* under the raw form, a send-code is throttled and the stored code is accepted
C29_Witness ==
    /\ Cooling(EmailA)
    /\ verifyStore[EmailA].attempts = 1
    /\ \A k \in RandomDraws :
          Res(SendCodeHandler(verifyStore, now, [identifier |-> RawEmailA],
                              Len(fate) + 1, k)).status = 429
    /\ Res(VerifyCodeHandler(verifyStore, now,
           [identifier |-> RawEmailA, code |-> verifyStore[EmailA].code])).status = 200

-----------------------------------------------------------------------------
\* the challenge numbered s is stored
Stored(s) == s \in Serials(verifyStore)

\* the challenge numbered s is stored and its expiresAt has passed
StoredExpired(s) ==
    \E i \in DOMAIN verifyStore :
        verifyStore[i].serial = s /\ now > verifyStore[i].expiresAt

\* C30: every challenge is removed from the store at some time after its
\* expiresAt has passed, whether or not a request for its identifier follows.
C30_ExpiredEventuallyRemoved ==
    \A s \in 1..MaxIssued : StoredExpired(s) ~> ~Stored(s)

\* a step leaves every challenge whose expiresAt has passed in the store as it
\* is, unless the step is a verify-code for its identifier, answered with the
\* expiry error, or an accepted issuance for its identifier that replaces it
ExpiredLeavesOnlyByRequest ==
    \A i \in DOMAIN verifyStore :
        now > verifyStore[i].expiresAt
        => \/ MapHas(verifyStore', i) /\ verifyStore'[i] = verifyStore[i]
           \/ fate'[verifyStore[i].serial] \in {"expired", "overwritten"}

\* C30 (amended): a challenge whose expiresAt has passed leaves the store only
\* by a verify-code for its identifier, which removes it with the expiry error
\* whatever the code, or by an accepted send-code or admin-send-code for its
\* identifier, which replaces it; the end of a delivery, verify-token and the
\* passing of time leave it stored.
C30_ExpiredRemovedOnlyByRequest ==
    /\ [][ExpiredLeavesOnlyByRequest]_vars
    /\ [](\A i \in DOMAIN verifyStore :
             now > verifyStore[i].expiresAt
             => /\ \A b \in VerifyBodies \cup OutsiderVerifyBodies :
                      NormalizeIdentifier(b) = i
                      => LET out == VerifyCodeHandler(verifyStore, now, b)
                         IN  Res(out) = Response(400, BodyExpired) /\ ~MapHas(out.store, i)
                /\ \A b \in TokenBodies :
                      VerifyTokenHandler(verifyStore, now, b).store = verifyStore)

\* the code of a@b.d was delivered, its expiresAt has passed and the challenge
\* is still stored while no request is under way
C30_Witness ==
    /\ MapHas(verifyStore, EmailA)
    /\ now > verifyStore[EmailA].expiresAt
    /\ fate[verifyStore[EmailA].serial] = "live"
    /\ inflight = EmptyMap

====
